---- MODULE Spec2Model ----
(***************************************************************************)
(* Model of scripts/marketplace.py: the marketplace-name policy, the       *)
(* frontmatter extractor, the plugin structural validator and the          *)
(* lint / sync / check-outdated commands over the persisted manifest and   *)
(* the plugins/ tree.                                                      *)
(*                                                                         *)
(* Python strings are sequences of one-character strings, so that          *)
(* startswith, find, slicing, "in" and sorted() are computed on the        *)
(* characters.  Messages appended to the error and warning lists are       *)
(* records [kind, a, b, field, n] holding the values the f-string          *)
(* interpolates.                                                           *)
(***************************************************************************)
EXTENDS Integers, Sequences, FiniteSets, TLC

VARIABLES
    name,          \* validate_marketplace_name: the candidate name
    nameErrors,    \* validate_marketplace_name: the returned list
    nameDone,      \* whether validate_marketplace_name has returned
    text,          \* parse_frontmatter: the content of the file at path
    fmResult,      \* parse_frontmatter: what the call produced
    fmDone,        \* whether parse_frontmatter has been called
    plugin_dir,    \* validate_plugin_dir: the directory it is given
    dirResult,     \* validate_plugin_dir: its errors, or that it raised
    dirDone,       \* whether validate_plugin_dir has been called
    file,          \* the persisted manifest, .claude-plugin/marketplace.json
    tree,          \* the directories under plugins/
    cmd,           \* the command that ran last, with its options
    run_raised,        \* the exception that ended it ("" when it returned)
    run_exit_code,     \* its exit status
    run_errors,        \* lint: the list errors when the command ended
    run_warnings,      \* lint: the list warnings when the command ended
    run_additions,     \* sync: the additions it computed
    run_removals,      \* sync: the removals it computed
    run_report,        \* sync, check-outdated: the closing line printed
    run_rows,          \* check-outdated: the rows added to the table
    run_has_mismatch,  \* check-outdated: the flag has_mismatch
    run_wrote,         \* sync: whether write_text returned
    run_validator,     \* lint: how the claude binary behaves in this run
    e2e_pc,            \* e2e.py: where main is
    e2e_claude,        \* e2e.py main: whether shutil.which found claude
    e2e_sources,       \* e2e.py main: the sources whose suite is still to run
    e2e_sandbox,       \* e2e.py _run_suite: whether the sandbox directory exists
    e2e_ran,           \* e2e.py _run_suite: the tests _run_test was called on
    e2e_last,          \* e2e.py _run_test: how the last test function ended
    e2e_passed,        \* e2e.py _run_suite: the tests of this suite that passed
    e2e_total_passed,  \* e2e.py main: total_passed
    e2e_total_tests,   \* e2e.py main: total_tests
    e2e_exit_code      \* e2e.py: the exit status of the process

nameVars == <<name, nameErrors, nameDone>>
fmVars == <<text, fmResult, fmDone>>
dirVars == <<plugin_dir, dirResult, dirDone>>
diskVars == <<file, tree>>
runVars == <<cmd, run_raised, run_exit_code, run_errors, run_warnings, run_additions, run_removals,
             run_report, run_rows, run_has_mismatch, run_wrote, run_validator>>
e2eVars == <<e2e_pc, e2e_claude, e2e_sources, e2e_sandbox, e2e_ran, e2e_last,
             e2e_passed, e2e_total_passed, e2e_total_tests, e2e_exit_code>>
vars == <<name, nameErrors, nameDone, text, fmResult, fmDone,
          plugin_dir, dirResult, dirDone, file, tree, cmd, run_raised, run_exit_code,
          run_errors, run_warnings, run_additions, run_removals, run_report, run_rows, run_has_mismatch,
          run_wrote, run_validator, e2e_pc, e2e_claude, e2e_sources,
          e2e_sandbox, e2e_ran, e2e_last, e2e_passed, e2e_total_passed,
          e2e_total_tests, e2e_exit_code>>

-----------------------------------------------------------------------------
(* Bounds of the model *)

MaxNameWords == 3
MaxLines == 3
MaxDocs == 2
MaxEntries == 2
MaxManifest == 4
MaxMembers == 3

-----------------------------------------------------------------------------
(* Strings *)

\* The words of marketplace names
Word ==
    [ claude |-> <<"c","l","a","u","d","e">>,
      code |-> <<"c","o","d","e">>,
      marketplace |-> <<"m","a","r","k","e","t","p","l","a","c","e">>,
      plugins |-> <<"p","l","u","g","i","n","s">>,
      plugin |-> <<"p","l","u","g","i","n">>,
      official |-> <<"o","f","f","i","c","i","a","l">>,
      anthropic |-> <<"a","n","t","h","r","o","p","i","c">>,
      agent |-> <<"a","g","e","n","t">>,
      skills |-> <<"s","k","i","l","l","s">>,
      life |-> <<"l","i","f","e">>,
      sciences |-> <<"s","c","i","e","n","c","e","s">>,
      tools |-> <<"t","o","o","l","s">>,
      extensions |-> <<"e","x","t","e","n","s","i","o","n","s">>,
      ai |-> <<"a","i">> ]

S_description == <<"d","e","s","c","r","i","p","t","i","o","n">>
S_name == <<"n","a","m","e">>
S_dashes == <<"-","-","-">>

\* Lines of the documents given to parse_frontmatter
Line ==
    [ dashes4 |-> <<"-","-","-","-">>,
      description |-> <<"d","e","s","c","r","i","p","t","i","o","n",":"," ","h","e","l","l","o">>,
      name |-> <<"n","a","m","e",":"," ","x">>,
      hello |-> <<"h","e","l","l","o">>,
      item |-> <<"-"," ","i","t","e","m">>,
      unclosed |-> <<"k","e","y",":"," ","[">> ]

S_1_0_0 == <<"1",".","0",".","0">>
S_development == <<"d","e","v","e","l","o","p","m","e","n","t">>
S_plugins_prefix == <<".","/","p","l","u","g","i","n","s","/">>

Whitespace == { " ", "\n", "\t", "\r" }

\* The characters of plugin names, in code point order
CodePoints ==
    << "-", ".", "0", "1", "2", "3", "4", "5", "6", "7", "8", "9", "_",
       "a", "b", "c", "d", "e", "f", "g", "h", "i", "j", "k", "l", "m",
       "n", "o", "p", "q", "r", "s", "t", "u", "v", "w", "x", "y", "z" >>

Ord(c) == CHOOSE i \in 1..Len(CodePoints) : CodePoints[i] = c

\* s < t for Python strings
RECURSIVE StrLess(_, _)
StrLess(s, t) ==
    IF Len(t) = 0 THEN FALSE
    ELSE IF Len(s) = 0 THEN TRUE
    ELSE IF s[1] = t[1] THEN StrLess(Tail(s), Tail(t))
    ELSE Ord(s[1]) < Ord(t[1])

\* sorted(S) for a set S of strings
RECURSIVE Sorted(_)
Sorted(S) ==
    IF S = {} THEN <<>>
    ELSE LET least == CHOOSE x \in S : \A y \in S \ {x} : StrLess(x, y)
         IN  <<least>> \o Sorted(S \ {least})

\* The set of the elements of a sequence
Range(q) == { q[i] : i \in 1..Len(q) }

\* sub in s
Contains(sub, s) ==
    \E i \in 1..(Len(s) - Len(sub) + 1) : SubSeq(s, i, i + Len(sub) - 1) = sub

\* sep.join(words)
RECURSIVE Join(_, _)
Join(words, sep) ==
    IF Len(words) = 0 THEN <<>>
    ELSE IF Len(words) = 1 THEN words[1]
    ELSE words[1] \o sep \o Join(Tail(words), sep)

\* s.startswith(prefix)
StartsWith(s, prefix) ==
    Len(s) >= Len(prefix) /\ SubSeq(s, 1, Len(prefix)) = prefix

\* s.find(sub, start): the lowest 0-based index >= start at which sub occurs
\* in s, or -1
Find(sub, s, start) ==
    LET hits == { i \in start..(Len(s) - Len(sub)) :
                     SubSeq(s, i + 1, i + Len(sub)) = sub }
    IN  IF hits = {} THEN -1
        ELSE CHOOSE i \in hits : \A j \in hits : i <= j

\* s[i:j] for 0 <= i, 0 <= j
Slice(s, i, j) == SubSeq(s, i + 1, IF j > Len(s) THEN Len(s) ELSE j)

\* s.strip()
RECURSIVE LStrip(_)
LStrip(s) ==
    IF Len(s) > 0 /\ s[1] \in Whitespace THEN LStrip(Tail(s)) ELSE s

RECURSIVE RStrip(_)
RStrip(s) ==
    IF Len(s) > 0 /\ s[Len(s)] \in Whitespace
    THEN RStrip(SubSeq(s, 1, Len(s) - 1)) ELSE s

Strip(s) == RStrip(LStrip(s))

\* s.split("\n")
RECURSIVE SplitLines(_)
SplitLines(s) ==
    LET nl == Find(<<"\n">>, s, 0)
    IN  IF nl = -1 THEN <<s>>
        ELSE <<Slice(s, 0, nl)>> \o SplitLines(Slice(s, nl + 1, Len(s)))

\* A message of an error or warning list: the kind of the f-string and the
\* values it interpolates.
Msg(kind, a, b, field, n) ==
    [kind |-> kind, a |-> a, b |-> b, field |-> field, n |-> n]

-----------------------------------------------------------------------------
(* Name policy *)

RESERVED_MARKETPLACE_NAMES ==
    { Join(<<Word.claude, Word.code, Word.marketplace>>, <<"-">>),
      Join(<<Word.claude, Word.code, Word.plugins>>, <<"-">>),
      Join(<<Word.claude, Word.plugins, Word.official>>, <<"-">>),
      Join(<<Word.anthropic, Word.marketplace>>, <<"-">>),
      Join(<<Word.anthropic, Word.plugins>>, <<"-">>),
      Join(<<Word.agent, Word.skills>>, <<"-">>),
      Join(<<Word.life, Word.sciences>>, <<"-">>) }

PLUGIN_RELATED_WORDS ==
    { Word.plugin, Word.plugins, Word.marketplace, Word.tools, Word.extensions }

\* The orders in which a frozenset of strings can be iterated.  The order
\* follows the strings' hashes, which are salted per process, so it is fixed
\* within one process and differs between processes.  validate_marketplace_name
\* returns at the first word that is in the name, so its result depends only
\* on which of the words in the name comes first: the five rotations below
\* put every word first once and so produce every result any order produces.
HashOrders ==
    { <<Word.plugin, Word.plugins, Word.marketplace, Word.tools, Word.extensions>>,
      <<Word.plugins, Word.marketplace, Word.tools, Word.extensions, Word.plugin>>,
      <<Word.marketplace, Word.tools, Word.extensions, Word.plugin, Word.plugins>>,
      <<Word.tools, Word.extensions, Word.plugin, Word.plugins, Word.marketplace>>,
      <<Word.extensions, Word.plugin, Word.plugins, Word.marketplace, Word.tools>> }

\* for word in _PLUGIN_RELATED_WORDS: if word in name: ... return errors
RECURSIVE FirstWordIn(_, _)
FirstWordIn(order, n) ==
    IF Len(order) = 0 THEN <<>>
    ELSE IF Contains(order[1], n)
         THEN <<Msg("impersonates_claude_with", n, order[1], "", 0)>>
         ELSE FirstWordIn(Tail(order), n)

\* A plausible slip: every rule appends and none returns early.
validate_marketplace_name_noreturn(n, order) ==
    (IF n \in RESERVED_MARKETPLACE_NAMES
        THEN <<Msg("reserved", n, <<>>, "", 0)>> ELSE <<>>)
    \o (IF Contains(Word.anthropic, n)
        THEN <<Msg("impersonates", n, Word.anthropic, "", 0)>> ELSE <<>>)
    \o (IF Contains(Word.official, n)
        THEN <<Msg("impersonates", n, Word.official, "", 0)>> ELSE <<>>)
    \o (IF Contains(Word.claude, n) THEN FirstWordIn(order, n) ELSE <<>>)

validate_marketplace_name(n, order) ==
    IF n \in RESERVED_MARKETPLACE_NAMES
    THEN <<Msg("reserved", n, <<>>, "", 0)>>
    ELSE IF Contains(Word.anthropic, n)
    THEN <<Msg("impersonates", n, Word.anthropic, "", 0)>>
    ELSE IF Contains(Word.official, n)
    THEN <<Msg("impersonates", n, Word.official, "", 0)>>
    ELSE IF Contains(Word.claude, n)
    THEN FirstWordIn(order, n)
    ELSE <<>>

-----------------------------------------------------------------------------
(* Frontmatter extractor *)

\* Values of yaml.safe_load, and of parse_frontmatter: kind is "null", "str",
\* "list" or "dict", or "error" when the call raises; dict is the mapping of
\* a "dict" (key -> value, both strings) and the empty function otherwise.
YamlValue(kind, d) == [kind |-> kind, dict |-> d]

NoneValue == YamlValue("null", <<>>)
Raised == YamlValue("error", <<>>)

\* The lines of a block that hold content (blank lines hold none).
RECURSIVE ContentLines(_)
ContentLines(lines) ==
    IF Len(lines) = 0 THEN <<>>
    ELSE (IF Strip(lines[1]) = <<>> THEN <<>> ELSE <<lines[1]>>)
         \o ContentLines(Tail(lines))

\* What a line at column 0 starts: a flow sequence left open, a block
\* sequence entry, a block mapping entry (key: value), or a plain scalar.
LineClass(l) ==
    IF Contains(<<"[">>, l) THEN "open_flow"
    ELSE IF l = <<"-">> \/ StartsWith(l, <<"-", " ">>) THEN "seq"
    ELSE IF Contains(<<":", " ">>, l) \/ l[Len(l)] = ":" THEN "map"
    ELSE "scalar"

MapKey(l) == Slice(l, 0, Find(<<":">>, l, 0))
MapValue(l) == Strip(Slice(l, Find(<<":">>, l, 0) + 1, Len(l)))

\* yaml.safe_load(fm_text) for blocks whose lines all start at column 0:
\* mapping entries make a dict (a repeated key keeps its last value),
\* sequence entries a list, a plain scalar and the lines folded into it a
\* str, no content None; a flow sequence that is never closed and every
\* other mixture of line kinds raise yaml.YAMLError.
yaml_safe_load(s) ==
    LET lines == ContentLines(SplitLines(s))
        cls == [i \in 1..Len(lines) |-> LineClass(lines[i])]
        keys == { MapKey(lines[i]) : i \in 1..Len(lines) }
        last(k) == CHOOSE i \in 1..Len(lines) :
                      /\ MapKey(lines[i]) = k
                      /\ \A j \in 1..Len(lines) : MapKey(lines[j]) = k => j <= i
    IN  IF \E i \in 1..Len(lines) : cls[i] = "open_flow" THEN Raised
        ELSE IF Len(lines) = 0 THEN NoneValue
        ELSE IF \A i \in 1..Len(lines) : cls[i] = "map"
        THEN YamlValue("dict", [k \in keys |-> MapValue(lines[last(k)])])
        ELSE IF \A i \in 1..Len(lines) : cls[i] = "seq"
        THEN YamlValue("list", <<>>)
        ELSE IF cls[1] = "scalar"
                /\ \A i \in 1..Len(lines) : cls[i] \in {"scalar", "seq"}
        THEN YamlValue("str", <<>>)
        ELSE Raised

\* parse_frontmatter on a file holding t: NoneValue for None, the dict, or
\* Raised when yaml.safe_load raises.
parse_frontmatter(t) ==
    IF ~StartsWith(t, S_dashes) THEN NoneValue
    ELSE LET end == Find(S_dashes, t, 3)
         IN  IF end = -1 THEN NoneValue
             ELSE LET fm_text == Strip(Slice(t, 3, end))
                      loaded == yaml_safe_load(fm_text)
                  IN  IF loaded.kind = "dict" THEN loaded
                      ELSE IF loaded.kind = "error" THEN Raised
                      ELSE NoneValue

-----------------------------------------------------------------------------
(* Plugin structural validator *)

\* What a function has done when control leaves it: the local list errors,
\* and whether control left by an exception (the caller then gets no list).
Outcome(raised, errors) == [raised |-> raised, errors |-> errors]

\* Running b after a: b does not run when a raised.
Then(a, b) ==
    IF a.raised THEN a ELSE Outcome(b.raised, a.errors \o b.errors)

\* An optional value (None, a missing file or directory) is <<>>, and a
\* present value v is <<v>>.
Absent == <<>>
Present(v) == <<v>>
Exists(opt) == opt # <<>>

\* Content of a JSON file as json.loads sees it: text that is no JSON, a
\* value that is no object, or an object with its members in order; a member
\* holds its key, whether its value is an object, and that object's keys.
JsonInvalid == [kind |-> "invalid", items |-> <<>>]
JsonNonObject == [kind |-> "list", items |-> <<>>]
JsonObject(items) == [kind |-> "dict", items |-> items]
Member(key, isdict, fields) ==
    [key |-> key, isdict |-> isdict, fields |-> fields]

\* plugin.json: missing, text that is no JSON, JSON that PluginJson rejects,
\* or a valid descriptor with its name, description and optional version and
\* author.
PluginJsonFile(state, n, description, version, author) ==
    [state |-> state, name |-> n, description |-> description,
     version |-> version, author |-> author]

PluginJsonMissing == PluginJsonFile("missing", <<>>, <<>>, Absent, Absent)
PluginJsonBadJson == PluginJsonFile("bad_json", <<>>, <<>>, Absent, Absent)
PluginJsonBadSchema == PluginJsonFile("bad_schema", <<>>, <<>>, Absent, Absent)

\* plugin.json check of validate_plugin_dir
PluginJsonErrors(dirname, pj) ==
    IF pj.state = "missing"
    THEN <<Msg("missing_plugin_json", dirname, <<>>, "", 0)>>
    ELSE IF pj.state \in {"bad_json", "bad_schema"}
    THEN <<Msg("invalid_plugin_json", dirname, <<>>, "", 0)>>
    ELSE IF pj.name # dirname
    THEN <<Msg("plugin_json_name_mismatch", dirname, pj.name, "", 0)>>
    ELSE <<>>

ReadmeErrors(dirname, readme) ==
    IF ~readme THEN <<Msg("missing_readme", dirname, <<>>, "", 0)>> ELSE <<>>

ComponentErrors(d) ==
    LET has_component ==
            \/ Exists(d.commands) \/ Exists(d.agents)
            \/ Exists(d.skills) \/ Exists(d.hooks)
            \/ Exists(d.mcp) \/ Exists(d.lsp)
    IN  IF ~has_component
        THEN <<Msg("no_component", d.dirname, <<>>, "", 0)>> ELSE <<>>

\* A plausible slip: "if" where the code has "elif".
CommandDocErrors_both(dirname, i, fm) ==
    (IF fm.kind # "dict"
     THEN <<Msg("command_missing_frontmatter", dirname, <<>>, "", i)>>
     ELSE <<>>)
    \o (IF S_description \notin DOMAIN fm.dict
        THEN <<Msg("command_frontmatter_missing", dirname, <<>>, "description", i)>>
        ELSE <<>>)

\* The violations of the i-th document of commands/, fm being what
\* parse_frontmatter returned for it
CommandDocErrors(dirname, i, fm) ==
    IF fm.kind # "dict"
    THEN <<Msg("command_missing_frontmatter", dirname, <<>>, "", i)>>
    ELSE IF S_description \notin DOMAIN fm.dict
    THEN <<Msg("command_frontmatter_missing", dirname, <<>>, "description", i)>>
    ELSE <<>>

\* for md_file in md_files, from the i-th on; md_files is sorted, and a
\* document is named by its place in that order
RECURSIVE CommandDocsFrom(_, _, _)
CommandDocsFrom(dirname, docs, i) ==
    IF i > Len(docs) THEN Outcome(FALSE, <<>>)
    ELSE LET fm == parse_frontmatter(docs[i])
         IN  IF fm.kind = "error" THEN Outcome(TRUE, <<>>)
             ELSE Then(Outcome(FALSE, CommandDocErrors(dirname, i, fm)),
                       CommandDocsFrom(dirname, docs, i + 1))

CommandsErrors(dirname, commands) ==
    IF ~Exists(commands) THEN Outcome(FALSE, <<>>)
    ELSE Then(Outcome(FALSE,
                 IF Len(commands[1]) = 0
                 THEN <<Msg("no_md_in_commands", dirname, <<>>, "", 0)>>
                 ELSE <<>>),
              CommandDocsFrom(dirname, commands[1], 1))

\* The 'Frontmatter missing' messages for ("name", "description")
MissingFields(kind, dirname, i, fm) ==
    (IF S_name \notin DOMAIN fm.dict
     THEN <<Msg(kind, dirname, <<>>, "name", i)>> ELSE <<>>)
    \o (IF S_description \notin DOMAIN fm.dict
        THEN <<Msg(kind, dirname, <<>>, "description", i)>> ELSE <<>>)

RECURSIVE AgentDocsFrom(_, _, _)
AgentDocsFrom(dirname, docs, i) ==
    IF i > Len(docs) THEN Outcome(FALSE, <<>>)
    ELSE LET fm == parse_frontmatter(docs[i])
         IN  IF fm.kind = "error" THEN Outcome(TRUE, <<>>)
             ELSE Then(Outcome(FALSE,
                          IF fm.kind # "dict"
                          THEN <<Msg("agent_missing_frontmatter", dirname, <<>>, "", i)>>
                          ELSE MissingFields("agent_frontmatter_missing", dirname, i, fm)),
                       AgentDocsFrom(dirname, docs, i + 1))

_validate_agents_dir(plugin_name, agents_dir) ==
    AgentDocsFrom(plugin_name, agents_dir, 1)

\* for skill_subdir in sorted(...), from the i-th on; a subdirectory is its
\* optional SKILL.md
RECURSIVE SkillDirsFrom(_, _, _)
SkillDirsFrom(dirname, subdirs, i) ==
    IF i > Len(subdirs) THEN Outcome(FALSE, <<>>)
    ELSE IF ~Exists(subdirs[i])
    THEN Then(Outcome(FALSE, <<Msg("skill_missing_skill_md", dirname, <<>>, "", i)>>),
              SkillDirsFrom(dirname, subdirs, i + 1))
    ELSE LET fm == parse_frontmatter(subdirs[i][1])
         IN  IF fm.kind = "error" THEN Outcome(TRUE, <<>>)
             ELSE Then(Outcome(FALSE,
                          IF fm.kind # "dict"
                          THEN <<Msg("skill_missing_frontmatter", dirname, <<>>, "", i)>>
                          ELSE MissingFields("skill_frontmatter_missing", dirname, i, fm)),
                       SkillDirsFrom(dirname, subdirs, i + 1))

_validate_skills_dir(plugin_name, skills_dir) ==
    SkillDirsFrom(plugin_name, skills_dir, 1)

HooksErrors(dirname, hooks) ==
    IF Exists(hooks) /\ ~hooks[1]
    THEN <<Msg("hooks_missing_hooks_json", dirname, <<>>, "", 0)>> ELSE <<>>

\* for key, value in servers.items(), from the i-th on
RECURSIVE McpEntriesFrom(_, _, _)
McpEntriesFrom(plugin_name, items, i) ==
    IF i > Len(items) THEN <<>>
    ELSE (IF ~items[i].isdict
          THEN <<Msg("mcp_entry_not_object", plugin_name, items[i].key, "", 0)>>
          ELSE <<>>)
         \o McpEntriesFrom(plugin_name, items, i + 1)

\* A plausible slip: the loop over the entries ends at the first finding.
_validate_mcp_json_first(plugin_name, data) ==
    IF data.kind = "invalid"
    THEN <<Msg("mcp_invalid_json", plugin_name, <<>>, "", 0)>>
    ELSE IF data.kind # "dict"
    THEN <<Msg("mcp_top_level_not_object", plugin_name, <<>>, "", 0)>>
    ELSE LET found == McpEntriesFrom(plugin_name, data.items, 1)
         IN  IF found = <<>> THEN <<>> ELSE <<found[1]>>

_validate_mcp_json(plugin_name, data) ==
    IF data.kind = "invalid"
    THEN <<Msg("mcp_invalid_json", plugin_name, <<>>, "", 0)>>
    ELSE IF data.kind # "dict"
    THEN <<Msg("mcp_top_level_not_object", plugin_name, <<>>, "", 0)>>
    ELSE McpEntriesFrom(plugin_name, data.items, 1)

RECURSIVE LspEntriesFrom(_, _, _)
LspEntriesFrom(plugin_name, items, i) ==
    IF i > Len(items) THEN <<>>
    ELSE (IF ~items[i].isdict
          THEN <<Msg("lsp_entry_not_object", plugin_name, items[i].key, "", 0)>>
          ELSE (IF "command" \notin items[i].fields
                THEN <<Msg("lsp_missing_field", plugin_name, items[i].key, "command", 0)>>
                ELSE <<>>)
               \o (IF "extensionToLanguage" \notin items[i].fields
                   THEN <<Msg("lsp_missing_field", plugin_name, items[i].key,
                              "extensionToLanguage", 0)>>
                   ELSE <<>>))
         \o LspEntriesFrom(plugin_name, items, i + 1)

_validate_lsp_json(plugin_name, data) ==
    IF data.kind = "invalid"
    THEN <<Msg("lsp_invalid_json", plugin_name, <<>>, "", 0)>>
    ELSE IF data.kind # "dict"
    THEN <<Msg("lsp_top_level_not_object", plugin_name, <<>>, "", 0)>>
    ELSE LspEntriesFrom(plugin_name, data.items, 1)

\* validate_plugin_dir on the directory d = [dirname, plugin_json, readme,
\* commands, agents, skills, hooks, mcp, lsp].  The only exception that
\* leaves it is the yaml.YAMLError of parse_frontmatter.
validate_plugin_dir(d) ==
    Then(Outcome(FALSE, PluginJsonErrors(d.dirname, d.plugin_json)),
    Then(Outcome(FALSE, ReadmeErrors(d.dirname, d.readme)),
    Then(Outcome(FALSE, ComponentErrors(d)),
    Then(CommandsErrors(d.dirname, d.commands),
    Then(IF Exists(d.agents)
         THEN _validate_agents_dir(d.dirname, d.agents[1])
         ELSE Outcome(FALSE, <<>>),
    Then(IF Exists(d.skills)
         THEN _validate_skills_dir(d.dirname, d.skills[1])
         ELSE Outcome(FALSE, <<>>),
    Then(Outcome(FALSE, HooksErrors(d.dirname, d.hooks)),
    Then(Outcome(FALSE, IF Exists(d.mcp)
                        THEN _validate_mcp_json(d.dirname, d.mcp[1]) ELSE <<>>),
         Outcome(FALSE, IF Exists(d.lsp)
                        THEN _validate_lsp_json(d.dirname, d.lsp[1]) ELSE <<>>)
    ))))))))

-----------------------------------------------------------------------------
(* Manifest, discovery and the external validator *)

\* A PluginEntry; the optional fields, which no command reads, are left out.
PluginEntry(n, description, version, author, source, category) ==
    [name |-> n, description |-> description, version |-> version,
     author |-> author, source |-> source, category |-> category]

\* The persisted marketplace.json: missing, text that is no JSON, JSON that
\* MarketplaceManifest rejects, or a valid manifest; schema tells whether the
\* "$schema" member is there.
MissingFile ==
    [state |-> "missing", schema |-> FALSE, name |-> <<>>, owner |-> <<>>,
     plugins |-> <<>>]
BadJsonFile ==
    [state |-> "bad_json", schema |-> FALSE, name |-> <<>>, owner |-> <<>>,
     plugins |-> <<>>]
BadSchemaFile ==
    [state |-> "bad_schema", schema |-> FALSE, name |-> <<>>, owner |-> <<>>,
     plugins |-> <<>>]

\* The file an unfinished write leaves: open(mode="w") has truncated it and
\* nothing, or only the beginning of the text, has reached it.
EmptyFile ==
    [state |-> "empty", schema |-> FALSE, name |-> <<>>, owner |-> <<>>,
     plugins |-> <<>>]
PartialFile ==
    [state |-> "partial", schema |-> FALSE, name |-> <<>>, owner |-> <<>>,
     plugins |-> <<>>]

NoManifest == [name |-> <<>>, owner |-> <<>>, plugins |-> <<>>]

\* load_marketplace: the manifest, or the exception that leaves the function.
\* model_validate ignores the "$schema" member.
load_marketplace(f) ==
    IF f.state = "missing"
    THEN [raised |-> "SystemExit", manifest |-> NoManifest]
    ELSE IF f.state \in {"bad_json", "empty", "partial"}
    THEN [raised |-> "JSONDecodeError", manifest |-> NoManifest]
    ELSE IF f.state = "bad_schema"
    THEN [raised |-> "ValidationError", manifest |-> NoManifest]
    ELSE [raised |-> "",
          manifest |-> [name |-> f.name, owner |-> f.owner,
                        plugins |-> f.plugins]]

\* model_dump, the "$schema" stamp and json.dumps: the text sync writes
DumpManifest(manifest) ==
    [state |-> "valid", schema |-> TRUE, name |-> manifest.name,
     owner |-> manifest.owner, plugins |-> manifest.plugins]

\* How far Path.write_text gets: it opens the file for writing, which
\* truncates it, writes the text and closes the file.  The write can fail
\* (OSError: no space, quota, I/O error) or the process can be stopped right
\* after the truncation or after a part of the text.
WriteFaults == { "none", "truncated", "partial" }

\* MARKETPLACE_PATH.write_text(output): the file it leaves
write_text(output, fault) ==
    IF fault = "none" THEN output
    ELSE IF fault = "truncated" THEN EmptyFile
    ELSE PartialFile

\* The plugins/ tree maps a directory name to the directory, when it exists.
\* discover_plugins: the sorted directories that hold a plugin.json
discover_plugins(t) ==
    Sorted({ n \in DOMAIN t :
                Exists(t[n]) /\ t[n][1].plugin_json.state # "missing" })

\* The plugin.json at PLUGINS_DIR / n / ".claude-plugin" / "plugin.json"
PluginJsonAt(t, n) ==
    IF n \in DOMAIN t /\ Exists(t[n]) THEN t[n][1].plugin_json
    ELSE PluginJsonMissing

\* (REPO_ROOT / source).exists(), for sources of the form ./plugins/<name>
SourceExists(t, source) ==
    \E n \in DOMAIN t : Exists(t[n]) /\ source = S_plugins_prefix \o n

\* The external binary: whether shutil.which finds it, whether it outlives
\* the timeout, its exit status and the lines of its stdout.  The marker
\* U+276F is written ">".
Validator(present, hangs, returncode, stdout) ==
    [present |-> present, hangs |-> hangs, returncode |-> returncode,
     stdout |-> stdout]

\* No claude on the PATH
NoValidator == Validator(FALSE, FALSE, 0, <<>>)

Marker == <<">">>

\* s.removeprefix(prefix)
RemovePrefix(s, prefix) ==
    IF StartsWith(s, prefix) THEN Slice(s, Len(prefix), Len(s)) ELSE s

RECURSIVE FindingsFrom(_, _)
FindingsFrom(lines, i) ==
    IF i > Len(lines) THEN <<>>
    ELSE (IF Contains(Marker, lines[i])
          THEN <<Msg("claude_validate",
                     Strip(RemovePrefix(Strip(lines[i]), Marker)), <<>>, "", 0)>>
          ELSE <<>>)
         \o FindingsFrom(lines, i + 1)

\* _run_claude_validate on one path: (errors, warnings), or TimeoutExpired
_run_claude_validate(v) ==
    IF ~v.present
    THEN [raised |-> "", errors |-> <<>>, warnings |-> <<>>]
    ELSE IF v.hangs
    THEN [raised |-> "TimeoutExpired", errors |-> <<>>, warnings |-> <<>>]
    ELSE IF v.returncode # 0
    THEN [raised |-> "", errors |-> FindingsFrom(v.stdout, 1), warnings |-> <<>>]
    ELSE [raised |-> "", errors |-> <<>>, warnings |-> FindingsFrom(v.stdout, 1)]

\* for path in [REPO_ROOT, *discover_plugins()], npaths paths being left; the
\* binary behaves alike on every path
RECURSIVE ValidatePaths(_, _)
ValidatePaths(v, npaths) ==
    IF npaths = 0 THEN [raised |-> "", errors |-> <<>>, warnings |-> <<>>]
    ELSE LET one == _run_claude_validate(v)
             rest == ValidatePaths(v, npaths - 1)
         IN  IF one.raised # "" THEN one
             ELSE [raised |-> rest.raised,
                   errors |-> one.errors \o rest.errors,
                   warnings |-> one.warnings \o rest.warnings]

_lint_claude_validate(v, t) ==
    IF ~v.present
    THEN [raised |-> "", errors |-> <<>>, warnings |-> <<>>]
    ELSE ValidatePaths(v, 1 + Len(discover_plugins(t)))

-----------------------------------------------------------------------------
(* lint *)

RECURSIVE SourceErrorsFrom(_, _, _)
SourceErrorsFrom(t, plugins, i) ==
    IF i > Len(plugins) THEN <<>>
    ELSE (IF ~SourceExists(t, plugins[i].source)
          THEN <<Msg("source_missing", plugins[i].name, plugins[i].source, "", 0)>>
          ELSE <<>>)
         \o SourceErrorsFrom(t, plugins, i + 1)

\* seen_names[n]
Occurrences(plugins, n) ==
    Cardinality({ i \in 1..Len(plugins) : plugins[i].name = n })

RECURSIVE DuplicateErrorsFrom(_, _, _)
DuplicateErrorsFrom(plugins, names, i) ==
    IF i > Len(names) THEN <<>>
    ELSE (IF Occurrences(plugins, names[i]) > 1
          THEN <<Msg("duplicate_plugin_name", names[i], <<>>, "",
                     Occurrences(plugins, names[i]))>>
          ELSE <<>>)
         \o DuplicateErrorsFrom(plugins, names, i + 1)

\* A plausible slip: one error for every entry whose name comes again.
DuplicateErrors_per_entry(plugins) ==
    DuplicateErrorsFrom(plugins,
                        [i \in 1..Len(plugins) |-> plugins[i].name], 1)

DuplicateErrors(plugins) ==
    DuplicateErrorsFrom(plugins,
                        Sorted({ plugins[i].name : i \in 1..Len(plugins) }), 1)

\* for plugin_dir in discovered, from the i-th on
RECURSIVE ValidateDirsFrom(_, _, _)
ValidateDirsFrom(t, discovered, i) ==
    IF i > Len(discovered) THEN Outcome(FALSE, <<>>)
    ELSE Then(validate_plugin_dir(t[discovered[i]][1]),
              ValidateDirsFrom(t, discovered, i + 1))

RECURSIVE UnlistedWarningsFrom(_, _)
UnlistedWarningsFrom(names, i) ==
    IF i > Len(names) THEN <<>>
    ELSE <<Msg("unlisted_plugin", names[i], <<>>, "", 0)>>
         \o UnlistedWarningsFrom(names, i + 1)

\* The block under "if manifest is not None" after the name check: the
\* source paths, the duplicates, the plugin directories, the unlisted plugins
ManifestChecks(manifest, t) ==
    LET discovered == discover_plugins(t)
        before == SourceErrorsFrom(t, manifest.plugins, 1)
                  \o DuplicateErrors(manifest.plugins)
        dirs == ValidateDirsFrom(t, discovered, 1)
        manifest_names ==
            { manifest.plugins[i].name : i \in 1..Len(manifest.plugins) }
        undiscovered == Range(discovered) \ manifest_names
    IN  IF dirs.raised
        THEN [raised |-> "YAMLError", errors |-> before \o dirs.errors,
              warnings |-> <<>>]
        ELSE [raised |-> "", errors |-> before \o dirs.errors,
              warnings |-> UnlistedWarningsFrom(Sorted(undiscovered), 1)]

\* "if errors: ... raise SystemExit(1)"
LintExit(errors, warnings) ==
    IF errors # <<>> THEN 1 ELSE 0

\* lint: how the process ends (an exception that nothing catches ends it
\* with status 1), and the lists errors and warnings at that point.  loaded
\* is what load_marketplace did, name_errors what validate_marketplace_name
\* returns for the manifest's name, checks the rest of the block under
\* "if manifest is not None", cli what _lint_claude_validate did.
lint(loaded, name_errors, checks, cli) ==
    IF loaded.raised \in {"JSONDecodeError", "ValidationError"}
    THEN [raised |-> loaded.raised, exit_code |-> 1,
          errors |-> <<>>, warnings |-> <<>>]
    ELSE
    LET first ==
            IF loaded.raised = "SystemExit"
            THEN [raised |-> "", warnings |-> <<>>,
                  errors |-> <<Msg("manifest_not_found_or_invalid",
                                   <<>>, <<>>, "", 0)>>]
            ELSE [raised |-> checks.raised, warnings |-> checks.warnings,
                  errors |-> name_errors \o checks.errors]
    IN  IF first.raised # ""
        THEN [raised |-> first.raised, exit_code |-> 1,
              errors |-> first.errors, warnings |-> first.warnings]
        ELSE IF cli.raised # ""
        THEN [raised |-> cli.raised, exit_code |-> 1,
              errors |-> first.errors, warnings |-> first.warnings]
        ELSE LET all_errors == first.errors \o cli.errors
                 all_warnings == first.warnings \o cli.warnings
             IN  [raised |-> IF LintExit(all_errors, all_warnings) # 0
                             THEN "SystemExit" ELSE "",
                  exit_code |-> LintExit(all_errors, all_warnings),
                  errors |-> all_errors, warnings |-> all_warnings]

-----------------------------------------------------------------------------
(* sync *)

ManifestNames(manifest) ==
    { manifest.plugins[i].name : i \in 1..Len(manifest.plugins) }

\* A plausible slip: the manifest's names are not taken out.
Additions_all(manifest_names, discovered_names) == Sorted(discovered_names)

Additions(manifest_names, discovered_names) ==
    Sorted(discovered_names \ manifest_names)

Removals(manifest_names, discovered_names) ==
    Sorted(manifest_names \ discovered_names)

\* A plausible slip: --write is looked at before --check.
SyncPath_write_first(additions, removals, write, check) ==
    IF additions = <<>> /\ removals = <<>> THEN "in_sync"
    ELSE IF write THEN "write"
    ELSE IF check THEN "out_of_sync"
    ELSE "hint"

\* Which way sync goes once the diff is known: "in sync" and return, the
\* report and SystemExit(1) under --check, the report and the hint without
\* --write, or on to the rewrite
SyncPath(additions, removals, write, check) ==
    IF additions = <<>> /\ removals = <<>> THEN "in_sync"
    ELSE IF check THEN "out_of_sync"
    ELSE IF ~write THEN "hint"
    ELSE "write"

\* "x or default" for an optional string: None and "" are both false
OrString(opt, default) ==
    IF ~Exists(opt) \/ opt[1] = <<>> THEN default ELSE opt[1]

\* "x or default" for an optional Author: an Author is never false
OrAuthor(opt, default) == IF ~Exists(opt) THEN default ELSE opt[1]

\* A plausible slip: the descriptor's author is not looked at.
NewEntry_owner(n, plugin_meta, owner) ==
    PluginEntry(plugin_meta.name, plugin_meta.description,
                OrString(plugin_meta.version, S_1_0_0),
                owner,
                S_plugins_prefix \o n, S_development)

\* The entry sync makes for the addition n from its descriptor
NewEntry(n, plugin_meta, owner) ==
    PluginEntry(plugin_meta.name, plugin_meta.description,
                OrString(plugin_meta.version, S_1_0_0),
                OrAuthor(plugin_meta.author, owner),
                S_plugins_prefix \o n, S_development)

\* "for name in additions", from the i-th on: the plugins with the new
\* entries appended, or the exception of a descriptor that does not load
RECURSIVE AddFrom(_, _, _, _, _)
AddFrom(plugins, additions, i, owner, t) ==
    IF i > Len(additions) THEN [raised |-> "", plugins |-> plugins]
    ELSE LET pj == PluginJsonAt(t, additions[i])
         IN  IF pj.state = "bad_json"
             THEN [raised |-> "JSONDecodeError", plugins |-> plugins]
             ELSE IF pj.state = "bad_schema"
             THEN [raised |-> "ValidationError", plugins |-> plugins]
             ELSE AddFrom(Append(plugins, NewEntry(additions[i], pj, owner)),
                          additions, i + 1, owner, t)

\* [e for e in manifest.plugins if e.name not in removals], manifest.plugins
\* being added: the loaded plugins and the new entries after them
Rewritten(added, removals) ==
    SelectSeq(added, LAMBDA e : e.name \notin Range(removals))

SyncResult(raised, exit_code, additions, removals, report, f, wrote) ==
    [raised |-> raised, exit_code |-> exit_code, additions |-> additions,
     removals |-> removals, report |-> report, file |-> f, wrote |-> wrote]

\* sync(write, check): how the process ends, the diff, what it reports and
\* the persisted manifest it leaves; fault is how far write_text gets when
\* the run comes to it
sync(f, t, write, check, fault) ==
    LET loaded == load_marketplace(f)
    IN  IF loaded.raised # ""
        THEN SyncResult(loaded.raised, 1, <<>>, <<>>, "", f, FALSE)
        ELSE
        LET manifest == loaded.manifest
            discovered == discover_plugins(t)
            manifest_names == ManifestNames(manifest)
            discovered_names == Range(discovered)
            additions == Additions(manifest_names, discovered_names)
            removals == Removals(manifest_names, discovered_names)
            path == SyncPath(additions, removals, write, check)
        IN  IF path = "in_sync"
            THEN SyncResult("", 0, additions, removals, "in_sync", f, FALSE)
            ELSE IF path = "out_of_sync"
            THEN SyncResult("SystemExit", 1, additions, removals,
                            "out_of_sync", f, FALSE)
            ELSE IF path = "hint"
            THEN SyncResult("", 0, additions, removals, "hint", f, FALSE)
            ELSE
            LET added == AddFrom(manifest.plugins, additions, 1,
                                 manifest.owner, t)
            IN  IF added.raised # ""
                THEN SyncResult(added.raised, 1, additions, removals,
                                "", f, FALSE)
                ELSE
                LET output == DumpManifest(
                                  [manifest EXCEPT !.plugins =
                                      Rewritten(added.plugins, removals)])
                IN  IF fault = "none"
                    THEN SyncResult("", 0, additions, removals, "updated",
                                    write_text(output, fault), TRUE)
                    ELSE SyncResult("OSError", 1, additions, removals, "",
                                    write_text(output, fault), FALSE)

-----------------------------------------------------------------------------
(* check-outdated *)

Row(n, status) == [name |-> n, status |-> status]

\* The status of the row of an entry whose descriptor, when there, loads
RowStatus(entry, pj) ==
    IF pj.state = "missing" THEN "ERROR"
    ELSE IF pj.version # Present(entry.version) THEN "MISMATCH"
    ELSE "OK"

\* "for entry in manifest.plugins", from the i-th on: the rows added, or the
\* exception of a descriptor that does not load
RECURSIVE RowsFrom(_, _, _)
RowsFrom(plugins, i, t) ==
    IF i > Len(plugins) THEN [raised |-> "", rows |-> <<>>]
    ELSE LET pj == PluginJsonAt(t, plugins[i].name)
         IN  IF pj.state = "bad_json"
             THEN [raised |-> "JSONDecodeError", rows |-> <<>>]
             ELSE IF pj.state = "bad_schema"
             THEN [raised |-> "ValidationError", rows |-> <<>>]
             ELSE LET rest == RowsFrom(plugins, i + 1, t)
                  IN  [raised |-> rest.raised,
                       rows |-> <<Row(plugins[i].name,
                                      RowStatus(plugins[i], pj))>>
                                \o rest.rows]

\* check_outdated: how the process ends, the rows added to the table, and
\* what it prints after the table (nothing when an exception ends it)
check_outdated(f, t) ==
    LET loaded == load_marketplace(f)
    IN  IF loaded.raised # ""
        THEN [raised |-> loaded.raised, exit_code |-> 1, rows |-> <<>>,
              has_mismatch |-> FALSE, report |-> ""]
        ELSE
        LET r == RowsFrom(loaded.manifest.plugins, 1, t)
            has_mismatch == \E i \in 1..Len(r.rows) : r.rows[i].status # "OK"
        IN  IF r.raised # ""
            THEN [raised |-> r.raised, exit_code |-> 1, rows |-> r.rows,
                  has_mismatch |-> has_mismatch, report |-> ""]
            ELSE [raised |-> "", exit_code |-> 0, rows |-> r.rows,
                  has_mismatch |-> has_mismatch,
                  report |-> IF has_mismatch THEN "mismatches_found"
                             ELSE "all_match"]

-----------------------------------------------------------------------------
(* Idle values of the variables a specification does not use *)

NameIdle ==
    /\ name = <<>>
    /\ nameErrors = <<>>
    /\ nameDone = FALSE

FmIdle ==
    /\ text = <<>>
    /\ fmResult = NoneValue
    /\ fmDone = FALSE

DirIdle ==
    /\ plugin_dir = <<>>
    /\ dirResult = Outcome(FALSE, <<>>)
    /\ dirDone = FALSE

Command(n, write, check) == [name |-> n, write |-> write, check |-> check]

NoRun ==
    /\ cmd = Command("none", FALSE, FALSE)
    /\ run_raised = ""
    /\ run_exit_code = 0
    /\ run_errors = <<>>
    /\ run_warnings = <<>>
    /\ run_additions = <<>>
    /\ run_removals = <<>>
    /\ run_report = ""
    /\ run_rows = <<>>
    /\ run_has_mismatch = FALSE
    /\ run_wrote = FALSE
    /\ run_validator = NoValidator

CliIdle ==
    /\ file = MissingFile
    /\ tree = <<>>
    /\ NoRun

E2eIdle ==
    /\ e2e_pc = "idle"
    /\ e2e_claude = FALSE
    /\ e2e_sources = <<>>
    /\ e2e_sandbox = FALSE
    /\ e2e_ran = <<>>
    /\ e2e_last = ""
    /\ e2e_passed = 0
    /\ e2e_total_passed = 0
    /\ e2e_total_tests = 0
    /\ e2e_exit_code = 0

-----------------------------------------------------------------------------
(* Specification of the name policy: one candidate name, one evaluation *)

NameWords ==
    { Word.claude, Word.code, Word.marketplace, Word.plugins, Word.official, Word.anthropic,
      Word.agent, Word.skills, Word.life, Word.sciences, Word.tools, Word.ai }

RECURSIVE WordSeqs(_)
WordSeqs(k) ==
    IF k = 0 THEN { <<>> }
    ELSE { <<w>> \o ws : w \in NameWords, ws \in WordSeqs(k - 1) }

CandidateNames ==
    { Join(ws, <<"-">>) : ws \in UNION { WordSeqs(k) : k \in 1..MaxNameWords } }

InitName ==
    /\ name \in CandidateNames
    /\ nameErrors = <<>>
    /\ nameDone = FALSE
    /\ FmIdle
    /\ DirIdle
    /\ CliIdle
    /\ E2eIdle

\* One evaluation of validate_marketplace_name(name); every evaluation can
\* be in a process of its own, with its own iteration order of the frozenset.
ValidateName ==
    /\ \E order \in HashOrders :
          nameErrors' = validate_marketplace_name(name, order)
    /\ nameDone' = TRUE
    /\ UNCHANGED <<name, fmVars, dirVars, diskVars, runVars, e2eVars>>

NextName == ValidateName

SpecName == InitName /\ [][NextName]_vars

-----------------------------------------------------------------------------
(* Specification of the frontmatter extractor: one document, one call *)

FmLines ==
    { S_dashes, Line.dashes4, Line.description, Line.name, Line.hello, Line.item,
      Line.unclosed, <<>> }

RECURSIVE LineSeqs(_)
LineSeqs(k) ==
    IF k = 0 THEN { <<>> }
    ELSE { <<l>> \o ls : l \in FmLines, ls \in LineSeqs(k - 1) }

Documents ==
    { Join(ls, <<"\n">>) : ls \in UNION { LineSeqs(k) : k \in 0..MaxLines } }

InitFm ==
    /\ text \in Documents
    /\ fmResult = NoneValue
    /\ fmDone = FALSE
    /\ NameIdle
    /\ DirIdle
    /\ CliIdle
    /\ E2eIdle

ParseFrontmatter ==
    /\ ~fmDone
    /\ fmResult' = parse_frontmatter(text)
    /\ fmDone' = TRUE
    /\ UNCHANGED <<text, nameVars, dirVars, diskVars, runVars, e2eVars>>

NextFm == ParseFrontmatter

SpecFm == InitFm /\ [][NextFm]_vars

-----------------------------------------------------------------------------
(* Specification of the structural validator: one directory, one call *)


\* Documents: with a description, with name and description, without
\* frontmatter, without description, with frontmatter that is no YAML
Doc ==
    [ good |-> Join(<<S_dashes, Line.description, S_dashes, Line.hello>>, <<"\n">>),
      full |-> Join(<<S_dashes, Line.name, Line.description, S_dashes>>, <<"\n">>),
      nofm |-> Join(<<Line.hello, <<>> >>, <<"\n">>),
      nodesc |-> Join(<<S_dashes, Line.name, S_dashes>>, <<"\n">>),
      badyaml |-> Join(<<S_dashes, Line.unclosed, S_dashes>>, <<"\n">>) ]

SampleDocs == { Doc.good, Doc.nofm, Doc.nodesc, Doc.badyaml }

RECURSIVE DocSeqs(_)
DocSeqs(k) ==
    IF k = 0 THEN { <<>> }
    ELSE { <<t>> \o ds : t \in SampleDocs, ds \in DocSeqs(k - 1) }

DocLists == UNION { DocSeqs(k) : k \in 0..MaxDocs }

D_a == <<"a">>
D_b == <<"b">>
K_srv == <<"s","r","v">>

SamplePluginJsons ==
    { PluginJsonMissing, PluginJsonBadJson,
      PluginJsonFile("valid", D_a, Line.hello, Present(<<"2">>), Absent),
      PluginJsonFile("valid", D_b, Line.hello, Absent, Absent) }

PluginDirs ==
    [ dirname : { D_a },
      plugin_json : SamplePluginJsons,
      readme : BOOLEAN,
      commands : { Absent } \cup { Present(ds) : ds \in DocLists },
      agents : { Absent, Present(<<Doc.full>>), Present(<<Doc.nodesc, Doc.badyaml>>) },
      skills : { Absent, Present(<< Absent, Present(Doc.full), Present(Doc.nofm) >>) },
      hooks : { Absent, Present(FALSE), Present(TRUE) },
      mcp : { Absent,
              Present(JsonObject(<< Member(K_srv, FALSE, {}),
                                    Member(D_a, TRUE, {}) >>)) },
      lsp : { Absent,
              Present(JsonObject(<< Member(K_srv, TRUE, {"command"}) >>)) } ]

InitDir ==
    /\ plugin_dir \in PluginDirs
    /\ dirResult = Outcome(FALSE, <<>>)
    /\ dirDone = FALSE
    /\ NameIdle
    /\ FmIdle
    /\ CliIdle
    /\ E2eIdle

ValidatePluginDir ==
    /\ ~dirDone
    /\ dirResult' = validate_plugin_dir(plugin_dir)
    /\ dirDone' = TRUE
    /\ UNCHANGED <<plugin_dir, nameVars, fmVars, diskVars, runVars, e2eVars>>

NextDir == ValidatePluginDir

SpecDir == InitDir /\ [][NextDir]_vars

-----------------------------------------------------------------------------
(* _validate_mcp_json on the .mcp.json of a plugin directory *)

McpKeys == { K_srv, D_a, D_b, <<"x">> }

\* The objects json.loads can return: members in the order of the text, no
\* key twice, each value an object or not
RECURSIVE MemberSeqs(_)
MemberSeqs(k) ==
    IF k = 0 THEN { <<>> }
    ELSE { <<Member(key, isdict, {})>> \o ms :
              key \in McpKeys, isdict \in BOOLEAN, ms \in MemberSeqs(k - 1) }

McpContents ==
    { JsonInvalid, JsonNonObject }
    \cup { JsonObject(ms) :
              ms \in { q \in UNION { MemberSeqs(k) : k \in 0..MaxMembers } :
                          \A i, j \in 1..Len(q) : q[i].key = q[j].key => i = j } }

InitMcp ==
    /\ plugin_dir \in
          { [dirname |-> D_a,
             plugin_json |-> PluginJsonFile("valid", D_a, Line.hello, Absent, Absent),
             readme |-> TRUE, commands |-> Absent, agents |-> Absent,
             skills |-> Absent, hooks |-> Absent, mcp |-> Present(content),
             lsp |-> Absent] : content \in McpContents }
    /\ dirResult = Outcome(FALSE, <<>>)
    /\ dirDone = FALSE
    /\ NameIdle
    /\ FmIdle
    /\ CliIdle
    /\ E2eIdle

ValidateMcpJson ==
    /\ ~dirDone
    /\ Exists(plugin_dir.mcp)
    /\ dirResult' = Outcome(FALSE, _validate_mcp_json(plugin_dir.dirname,
                                                       plugin_dir.mcp[1]))
    /\ dirDone' = TRUE
    /\ UNCHANGED <<plugin_dir, nameVars, fmVars, diskVars, runVars, e2eVars>>

SpecMcp == InitMcp /\ [][ValidateMcpJson]_vars

-----------------------------------------------------------------------------
(* Specification of the commands: a repository, and lint, sync and         *)
(* check-outdated run on it one after the other in any order               *)

D_x == <<"x">>
V_2 == <<"2">>
A_owner == <<"o">>

DirNames == { D_a, D_b }

HealthyDir(n, pj) ==
    [dirname |-> n, plugin_json |-> pj, readme |-> TRUE,
     commands |-> Present(<<Doc.good>>), agents |-> Absent, skills |-> Absent,
     hooks |-> Absent, mcp |-> Absent, lsp |-> Absent]

\* What plugins/<n> can be: not there, a directory without plugin.json, a
\* valid plugin with a version, a plugin whose descriptor names another
\* plugin and has the version "" and an author, a plugin whose plugin.json is
\* no JSON, a plugin whose descriptor has no version and with a command whose
\* frontmatter is no YAML.
DirChoices(n) ==
    { Absent,
      Present(HealthyDir(n, PluginJsonMissing)),
      Present(HealthyDir(n, PluginJsonFile("valid", n, Line.hello, Present(V_2), Absent))),
      Present(HealthyDir(n, PluginJsonFile("valid", D_x, Line.hello, Present(<<>>),
                                           Present(n)))),
      Present(HealthyDir(n, PluginJsonBadJson)),
      Present([HealthyDir(n, PluginJsonFile("valid", n, Line.hello, Absent, Absent))
                  EXCEPT !.commands = Present(<<Doc.nofm, Doc.badyaml>>)]) }

Trees == { t \in [DirNames -> UNION { DirChoices(n) : n \in DirNames }] :
              \A n \in DirNames : t[n] \in DirChoices(n) }

InitialEntries ==
    { PluginEntry(n, Line.hello, V_2, A_owner, S_plugins_prefix \o n, S_development) :
         n \in DirNames \cup { D_x } }

RECURSIVE EntrySeqs(_)
EntrySeqs(k) ==
    IF k = 0 THEN { <<>> }
    ELSE { <<e>> \o es : e \in InitialEntries, es \in EntrySeqs(k - 1) }

N_tools == Join(<<Word.ai, Word.tools>>, <<"-">>)
N_claude_plugins == Join(<<Word.claude, Word.plugins>>, <<"-">>)

ManifestFile(n, plugins) ==
    [state |-> "valid", schema |-> FALSE, name |-> n, owner |-> A_owner,
     plugins |-> plugins]

InitialFiles ==
    { MissingFile, BadJsonFile, BadSchemaFile, ManifestFile(N_claude_plugins, <<>>) }
    \cup { ManifestFile(N_tools, es) :
              es \in UNION { EntrySeqs(k) : k \in 0..MaxEntries } }

Validators ==
    { NoValidator,
      Validator(TRUE, TRUE, 0, <<>>),
      Validator(TRUE, FALSE, 0, << <<">", " ", "w">>, <<"o", "k">> >>),
      Validator(TRUE, FALSE, 1, << <<">", " ", "e">>, <<"a", " ", ">", " ", "b">> >>) }

Init ==
    /\ file \in InitialFiles
    /\ tree \in Trees
    /\ NoRun
    /\ NameIdle
    /\ FmIdle
    /\ DirIdle
    /\ E2eIdle

Lint ==
    /\ \E loaded \in { load_marketplace(file) } :
       \E checks \in { ManifestChecks(loaded.manifest, tree) } :
       \E v \in Validators :
       \E r \in { lint(loaded,
                       validate_marketplace_name(loaded.manifest.name, order),
                       checks, _lint_claude_validate(v, tree)) :
                     order \in HashOrders } :
          /\ run_validator' = v
          /\ run_raised' = r.raised
          /\ run_exit_code' = r.exit_code
          /\ run_errors' = r.errors
          /\ run_warnings' = r.warnings
    /\ cmd' = Command("lint", FALSE, FALSE)
    /\ run_additions' = <<>>
    /\ run_removals' = <<>>
    /\ run_report' = ""
    /\ run_rows' = <<>>
    /\ run_has_mismatch' = FALSE
    /\ run_wrote' = FALSE
    /\ UNCHANGED <<diskVars, nameVars, fmVars, dirVars, e2eVars>>

Sync ==
    /\ \E write \in BOOLEAN, check \in BOOLEAN :
       \E fault \in IF write /\ ~check THEN WriteFaults ELSE { "none" } :
          LET r == sync(file, tree, write, check, fault)
          IN  /\ r.file.state = "valid" => Len(r.file.plugins) <= MaxManifest
              /\ cmd' = Command("sync", write, check)
              /\ run_raised' = r.raised
              /\ run_exit_code' = r.exit_code
              /\ run_additions' = r.additions
              /\ run_removals' = r.removals
              /\ run_report' = r.report
              /\ run_wrote' = r.wrote
              /\ file' = r.file
    /\ run_errors' = <<>>
    /\ run_warnings' = <<>>
    /\ run_rows' = <<>>
    /\ run_has_mismatch' = FALSE
    /\ run_validator' = NoValidator
    /\ UNCHANGED <<tree, nameVars, fmVars, dirVars, e2eVars>>

CheckOutdated ==
    /\ LET r == check_outdated(file, tree)
       IN  /\ run_raised' = r.raised
           /\ run_exit_code' = r.exit_code
           /\ run_rows' = r.rows
           /\ run_has_mismatch' = r.has_mismatch
           /\ run_report' = r.report
    /\ cmd' = Command("check-outdated", FALSE, FALSE)
    /\ run_errors' = <<>>
    /\ run_warnings' = <<>>
    /\ run_additions' = <<>>
    /\ run_removals' = <<>>
    /\ run_wrote' = FALSE
    /\ run_validator' = NoValidator
    /\ UNCHANGED <<diskVars, nameVars, fmVars, dirVars, e2eVars>>

Next == Lint \/ Sync \/ CheckOutdated

Spec == Init /\ [][Next]_vars

-----------------------------------------------------------------------------
(* scripts/e2e.py: the lifecycle test runner *)

PLUGINS == <<"multi-model", "rebase", "changelog", "tdd">>

\* A TestCase: the builder it comes from, its label and the plugin it is for
TestCase(group, label, plugin) ==
    [group |-> group, label |-> label, plugin |-> plugin]

_test_validate ==
    <<TestCase("validate", "validate marketplace", "")>>
    \o [i \in 1..Len(PLUGINS) |->
           TestCase("validate", "validate plugin", PLUGINS[i])]

_test_marketplace_add ==
    << TestCase("marketplace_add", "marketplace add", ""),
       TestCase("marketplace_add", "marketplace list", "") >>

_test_install ==
    [i \in 1..Len(PLUGINS) |-> TestCase("install", "install", PLUGINS[i])]
    \o <<TestCase("install", "plugin list (installed)", "")>>

_test_disable_enable ==
    << TestCase("disable_enable", "disable", PLUGINS[1]),
       TestCase("disable_enable", "enable", PLUGINS[1]) >>

_test_uninstall ==
    [i \in 1..Len(PLUGINS) |-> TestCase("uninstall", "uninstall", PLUGINS[i])]
    \o <<TestCase("uninstall", "plugin list (0 installed)", "")>>

_test_marketplace_remove ==
    << TestCase("marketplace_remove", "marketplace remove", ""),
       TestCase("marketplace_remove", "marketplace list (empty)", "") >>

\* The list tests of _run_suite, the same for both sources
SuiteTests ==
    _test_validate \o _test_marketplace_add \o _test_install
    \o _test_disable_enable \o _test_uninstall \o _test_marketplace_remove

\* How a test function can end: it returns, _assert raises TestFailureError,
\* _run_claude raises subprocess.TimeoutExpired, or another exception leaves
\* it (OSError from subprocess.run, UnicodeDecodeError, KeyboardInterrupt)
TestOutcomes == { "return", "TestFailureError", "TimeoutExpired", "other" }

\* A plausible slip: no "except subprocess.TimeoutExpired".
_run_test_no_timeout_handler(outcome) ==
    [raised |-> outcome \in {"TimeoutExpired", "other"},
     ok |-> outcome = "return"]

\* _run_test: the bool it returns, or that the exception leaves it
_run_test(outcome) ==
    [raised |-> outcome = "other", ok |-> outcome = "return"]

InitE2e ==
    /\ e2e_pc = "main"
    /\ e2e_claude = FALSE
    /\ e2e_sources = <<>>
    /\ e2e_sandbox = FALSE
    /\ e2e_ran = <<>>
    /\ e2e_last = ""
    /\ e2e_passed = 0
    /\ e2e_total_passed = 0
    /\ e2e_total_tests = 0
    /\ e2e_exit_code = 0
    /\ NameIdle
    /\ FmIdle
    /\ DirIdle
    /\ CliIdle

\* main up to the loop over the sources
E2eMain ==
    /\ e2e_pc = "main"
    /\ \E present \in BOOLEAN, source \in {"local", "github", "both"} :
          /\ e2e_claude' = present
          /\ IF ~present
             THEN /\ e2e_pc' = "exit"
                  /\ e2e_exit_code' = 1
                  /\ UNCHANGED e2e_sources
             ELSE /\ e2e_pc' = "loop"
                  /\ e2e_sources' = IF source = "both"
                                    THEN <<"local", "github">> ELSE <<source>>
                  /\ UNCHANGED e2e_exit_code
    /\ UNCHANGED <<e2e_sandbox, e2e_ran, e2e_last, e2e_passed,
                   e2e_total_passed, e2e_total_tests>>
    /\ UNCHANGED <<nameVars, fmVars, dirVars, diskVars, runVars>>

\* _run_suite up to the sum over the tests: mkdtemp and the list tests
E2eBeginSuite ==
    /\ e2e_pc = "loop"
    /\ e2e_sources # <<>>
    /\ e2e_pc' = "suite"
    /\ e2e_sandbox' = TRUE
    /\ e2e_ran' = <<>>
    /\ e2e_passed' = 0
    /\ e2e_last' = ""
    /\ UNCHANGED <<e2e_claude, e2e_sources, e2e_total_passed, e2e_total_tests,
                   e2e_exit_code>>
    /\ UNCHANGED <<nameVars, fmVars, dirVars, diskVars, runVars>>

\* One _run_test(name, fn) of the sum.  An exception that leaves _run_test
\* leaves _run_suite through "finally", which removes the sandbox, and main:
\* the process ends with a traceback and status 1.
E2eRunTest ==
    /\ e2e_pc = "suite"
    /\ Len(e2e_ran) < Len(SuiteTests)
    /\ \E outcome \in TestOutcomes :
          LET r == _run_test(outcome)
          IN  /\ e2e_last' = outcome
              /\ e2e_ran' = Append(e2e_ran, SuiteTests[Len(e2e_ran) + 1])
              /\ IF r.raised
                 THEN /\ e2e_sandbox' = FALSE
                      /\ e2e_pc' = "exit"
                      /\ e2e_exit_code' = 1
                      /\ UNCHANGED e2e_passed
                 ELSE /\ e2e_passed' = e2e_passed + (IF r.ok THEN 1 ELSE 0)
                      /\ UNCHANGED <<e2e_sandbox, e2e_pc, e2e_exit_code>>
    /\ UNCHANGED <<e2e_claude, e2e_sources, e2e_total_passed, e2e_total_tests>>
    /\ UNCHANGED <<nameVars, fmVars, dirVars, diskVars, runVars>>

\* The end of _run_suite (return passed, total; finally: rmtree) and the
\* two additions of main's loop
E2eEndSuite ==
    /\ e2e_pc = "suite"
    /\ Len(e2e_ran) = Len(SuiteTests)
    /\ e2e_sandbox' = FALSE
    /\ e2e_total_passed' = e2e_total_passed + e2e_passed
    /\ e2e_total_tests' = e2e_total_tests + Len(SuiteTests)
    /\ e2e_sources' = Tail(e2e_sources)
    /\ e2e_pc' = "loop"
    /\ UNCHANGED <<e2e_claude, e2e_ran, e2e_last, e2e_passed, e2e_exit_code>>
    /\ UNCHANGED <<nameVars, fmVars, dirVars, diskVars, runVars>>

\* main after the loop: the summary, and SystemExit(1) when a test failed
E2eReport ==
    /\ e2e_pc = "loop"
    /\ e2e_sources = <<>>
    /\ e2e_pc' = "exit"
    /\ e2e_exit_code' = IF e2e_total_passed = e2e_total_tests THEN 0 ELSE 1
    /\ UNCHANGED <<e2e_claude, e2e_sources, e2e_sandbox, e2e_ran, e2e_last,
                   e2e_passed, e2e_total_passed, e2e_total_tests>>
    /\ UNCHANGED <<nameVars, fmVars, dirVars, diskVars, runVars>>

NextE2e ==
    E2eMain \/ E2eBeginSuite \/ E2eRunTest \/ E2eEndSuite \/ E2eReport

SpecE2e == InitE2e /\ [][NextE2e]_vars

-----------------------------------------------------------------------------
(* C1 *)

Rule1Matches == name \in RESERVED_MARKETPLACE_NAMES
Rule2Matches == Contains(Word.anthropic, name)
Rule3Matches == Contains(Word.official, name)
Rule4Matches ==
    /\ Contains(Word.claude, name)
    /\ \E w \in PLUGIN_RELATED_WORDS : Contains(w, name)

\* C1: validate_marketplace_name returns at most one error, and it is the
\* error of the first rule that matches in the order reserved, 'anthropic',
\* 'official', 'claude' with a plugin-related word; a name matching no rule
\* gets the empty list.
C1_FirstMatchingRuleOnly ==
    nameDone =>
        /\ Len(nameErrors) <= 1
        /\ Rule1Matches =>
              nameErrors = <<Msg("reserved", name, <<>>, "", 0)>>
        /\ (~Rule1Matches /\ Rule2Matches) =>
              nameErrors = <<Msg("impersonates", name, Word.anthropic, "", 0)>>
        /\ (~Rule1Matches /\ ~Rule2Matches /\ Rule3Matches) =>
              nameErrors = <<Msg("impersonates", name, Word.official, "", 0)>>
        /\ (~Rule1Matches /\ ~Rule2Matches /\ ~Rule3Matches /\ Rule4Matches) =>
              /\ Len(nameErrors) = 1
              /\ nameErrors[1].kind = "impersonates_claude_with"
              /\ nameErrors[1].a = name
              /\ nameErrors[1].b \in PLUGIN_RELATED_WORDS
              /\ Contains(nameErrors[1].b, name)
        /\ (~Rule1Matches /\ ~Rule2Matches /\ ~Rule3Matches /\ ~Rule4Matches) =>
              nameErrors = <<>>

\* 'claude-plugins-official' also contains 'official' and 'claude' with
\* 'plugins', and gets the reserved-name error alone.
C1_Witness ==
    /\ nameDone
    /\ name = Join(<<Word.claude, Word.plugins, Word.official>>, <<"-">>)
    /\ Rule3Matches /\ Rule4Matches
    /\ nameErrors = <<Msg("reserved", name, <<>>, "", 0)>>

-----------------------------------------------------------------------------
(* C2 *)

StrictlySorted(q) == \A i \in 1..(Len(q) - 1) : StrLess(q[i], q[i + 1])

\* The names of the directories under plugins/ that hold a plugin.json
DiscoveredNames ==
    { n \in DirNames : tree[n] # <<>> /\ tree[n][1].plugin_json.state # "missing" }

\* The names of the entries of the persisted manifest
PersistedNames == { file.plugins[i].name : i \in 1..Len(file.plugins) }

\* C2: a sync run that loads the manifest computes additions = the discovered
\* names that no manifest entry has and removals = the manifest names that are
\* not discovered, each sorted and without repeats, disjoint; it reports
\* 'in sync' exactly when both are empty; and a sync run that follows a sync
\* run that wrote nothing computes the same additions and removals.
C2_DiffIsSetDifference ==
    [][ (cmd'.name = "sync" /\ file.state = "valid") =>
           /\ Range(run_additions') = DiscoveredNames \ PersistedNames
           /\ Range(run_removals') = PersistedNames \ DiscoveredNames
           /\ StrictlySorted(run_additions')
           /\ StrictlySorted(run_removals')
           /\ Range(run_additions') \cap Range(run_removals') = {}
           /\ (run_report' = "in_sync") <=>
                 (run_additions' = <<>> /\ run_removals' = <<>>)
           /\ (cmd.name = "sync" /\ ~run_wrote) =>
                 /\ run_additions' = run_additions
                 /\ run_removals' = run_removals
      ]_vars

\* A sync run found something to add and something to remove.
C2_Witness ==
    /\ cmd.name = "sync"
    /\ ~run_wrote
    /\ Len(run_additions) = 2
    /\ Len(run_removals) >= 1

-----------------------------------------------------------------------------
(* C3 *)

\* C3: after a sync --write that rewrites the manifest, the names of the
\* re-parsed manifest are the prior names plus the additions minus the
\* removals, the entries neither added nor removed keep their order, and
\* the new entries come after them.
C3_RewrittenNames ==
    [][ (cmd'.name = "sync" /\ run_wrote') =>
           LET before == file.plugins
               reparsed == load_marketplace(file')
               after == reparsed.manifest.plugins
               kept == SelectSeq(before,
                          LAMBDA e : e.name \notin Range(run_removals'))
           IN  /\ reparsed.raised = ""
               /\ { after[i].name : i \in 1..Len(after) } =
                     (PersistedNames \cup Range(run_additions'))
                        \ Range(run_removals')
               /\ Len(after) = Len(kept) + Len(run_additions')
               /\ SubSeq(after, 1, Len(kept)) = kept
      ]_vars

-----------------------------------------------------------------------------
(* C4 *)

\* C4: the persisted manifest changes only in a sync run with --write and
\* without --check that found additions or removals; lint, check-outdated
\* and every other sync run leave it as it was.
C4_WrittenOnlyBySyncWrite ==
    [][ (file' # file \/ run_wrote') =>
           /\ cmd'.name = "sync"
           /\ cmd'.write
           /\ ~cmd'.check
           /\ (run_additions' # <<>> \/ run_removals' # <<>>)
      ]_vars

\* sync --write --check on a manifest that is out of sync wrote nothing.
C4_Witness ==
    /\ cmd = Command("sync", TRUE, TRUE)
    /\ run_report = "out_of_sync"
    /\ run_additions # <<>>
    /\ ~run_wrote

-----------------------------------------------------------------------------
(* C5 *)

\* C5: a lint run ends with a non-zero exit status exactly when its list of
\* errors is not empty.
C5_ExitStatusIffErrors ==
    cmd.name = "lint" => (run_exit_code # 0 <=> run_errors # <<>>)

-----------------------------------------------------------------------------
(* C6 *)

RemainingCheckKinds ==
    { "reserved", "impersonates", "impersonates_claude_with", "source_missing",
      "duplicate_plugin_name", "unlisted_plugin", "missing_plugin_json",
      "invalid_plugin_json", "plugin_json_name_mismatch", "missing_readme",
      "no_component", "no_md_in_commands", "command_missing_frontmatter",
      "command_frontmatter_missing" }

\* C6: when the manifest is missing, is no JSON or does not fit the schema,
\* lint (the external validator not timing out) records the manifest error,
\* runs none of the checks that need the manifest, and ends by its error
\* report with exit status 1.
C6_LoadFailureIsReported ==
    (cmd.name = "lint" /\ file.state # "valid" /\ run_raised # "TimeoutExpired") =>
        /\ run_raised = "SystemExit"
        /\ run_exit_code = 1
        /\ Len(run_errors) >= 1
        /\ run_errors[1] = Msg("manifest_not_found_or_invalid", <<>>, <<>>, "", 0)
        /\ \A i \in 1..Len(run_errors) : run_errors[i].kind \notin RemainingCheckKinds
        /\ \A i \in 1..Len(run_warnings) : run_warnings[i].kind \notin RemainingCheckKinds

-----------------------------------------------------------------------------
(* C7 *)

HasLeadingDelimiter ==
    Len(text) >= 3 /\ \A i \in 1..3 : text[i] = "-"

ClosingDelimiters ==
    { i \in 4..(Len(text) - 2) : \A j \in i..(i + 2) : text[j] = "-" }

\* C7: parse_frontmatter never raises; it returns None for a document without
\* the leading '---', for one without a later '---', and for a block whose
\* content is no mapping, and the parsed mapping otherwise.
C7_AbsentNeverError ==
    fmDone =>
        /\ fmResult.kind # "error"
        /\ ~HasLeadingDelimiter => fmResult = NoneValue
        /\ (HasLeadingDelimiter /\ ClosingDelimiters = {}) => fmResult = NoneValue
        /\ (HasLeadingDelimiter /\ ClosingDelimiters # {}) =>
              LET close == CHOOSE i \in ClosingDelimiters :
                              \A j \in ClosingDelimiters : i <= j
                  loaded == yaml_safe_load(Strip(SubSeq(text, 4, close - 1)))
              IN  IF loaded.kind = "dict" THEN fmResult = loaded
                  ELSE fmResult = NoneValue

-----------------------------------------------------------------------------
(* C8 *)

\* The violations of each check of validate_plugin_dir taken by itself
CheckOutcomes(d) ==
    << Outcome(FALSE, PluginJsonErrors(d.dirname, d.plugin_json)),
       Outcome(FALSE, ReadmeErrors(d.dirname, d.readme)),
       Outcome(FALSE, ComponentErrors(d)),
       CommandsErrors(d.dirname, d.commands),
       IF Exists(d.agents) THEN _validate_agents_dir(d.dirname, d.agents[1])
       ELSE Outcome(FALSE, <<>>),
       IF Exists(d.skills) THEN _validate_skills_dir(d.dirname, d.skills[1])
       ELSE Outcome(FALSE, <<>>),
       Outcome(FALSE, HooksErrors(d.dirname, d.hooks)),
       Outcome(FALSE, IF Exists(d.mcp)
                      THEN _validate_mcp_json(d.dirname, d.mcp[1]) ELSE <<>>),
       Outcome(FALSE, IF Exists(d.lsp)
                      THEN _validate_lsp_json(d.dirname, d.lsp[1]) ELSE <<>>) >>

RECURSIVE Flatten(_)
Flatten(qs) == IF Len(qs) = 0 THEN <<>> ELSE qs[1].errors \o Flatten(Tail(qs))

\* C8: validate_plugin_dir returns the violations of every failing check, in
\* the order of the checks, whatever the other checks found, and returns the
\* empty sequence exactly when every check passes.
C8_EveryCheckReported ==
    dirDone =>
        /\ ~dirResult.raised
        /\ dirResult.errors = Flatten(CheckOutcomes(plugin_dir))
        /\ (dirResult.errors = <<>>) <=>
              \A i \in 1..9 :
                 CheckOutcomes(plugin_dir)[i] = Outcome(FALSE, <<>>)

-----------------------------------------------------------------------------
(* C9 *)

CommandDocKinds == { "command_missing_frontmatter", "command_frontmatter_missing" }

\* The violations appended for the i-th document of commands/
ViolationsOfCommandDoc(i) ==
    SelectSeq(dirResult.errors, LAMBDA m : m.kind \in CommandDocKinds /\ m.n = i)

-----------------------------------------------------------------------------
(* C10 *)

\* C10: check-outdated changes neither the manifest nor the plugins, and when
\* the manifest loads it gives every entry one row: ERROR when its plugin.json
\* is missing, MISMATCH when the plugin.json is there with another version,
\* OK otherwise; it reports mismatches exactly when some row is not OK.
C10_EveryEntryClassified ==
    [][ cmd'.name = "check-outdated" =>
           /\ file' = file
           /\ tree' = tree
           /\ file.state = "valid" =>
                 /\ Len(run_rows') = Len(file.plugins)
                 /\ \A i \in 1..Len(file.plugins) :
                       LET entry == file.plugins[i]
                           there == /\ entry.name \in DirNames
                                    /\ tree[entry.name] # <<>>
                                    /\ tree[entry.name][1].plugin_json.state # "missing"
                           pj == tree[entry.name][1].plugin_json
                       IN  /\ run_rows'[i].name = entry.name
                           /\ run_rows'[i].status =
                                 IF ~there THEN "ERROR"
                                 ELSE IF pj.version # <<entry.version>> THEN "MISMATCH"
                                 ELSE "OK"
                 /\ (run_report' = "mismatches_found") <=>
                       \E i \in 1..Len(run_rows') : run_rows'[i].status # "OK"
                 /\ run_report' \in {"mismatches_found", "all_match"}
      ]_vars

-----------------------------------------------------------------------------
(* C11 *)

\* C11: whatever way a sync --write run ends, the persisted manifest it
\* leaves is the complete content it had before the run or the complete
\* rewritten manifest with the "$schema" member, never an empty or partial
\* file.
C11_WriteIsAtomic ==
    [][ (cmd'.name = "sync" /\ cmd'.write) =>
           \/ file' = file
           \/ /\ file'.state = "valid"
              /\ file'.schema
              /\ run_wrote'
      ]_vars

-----------------------------------------------------------------------------
(* C12 *)

\* The entries a sync --write step appended and wrote: those after the
\* entries it kept
SynthesizedEntries ==
    LET kept == SelectSeq(file.plugins,
                   LAMBDA e : e.name \notin Range(run_removals'))
    IN  SubSeq(file'.plugins, Len(kept) + 1, Len(file'.plugins))

\* The additions whose entries the removals filter lets through
WrittenAdditions ==
    SelectSeq(run_additions',
       LAMBDA a : tree[a][1].plugin_json.name \notin Range(run_removals'))

\* The entry written for the i-th of them has the source './plugins/<a>',
\* the category 'development', the descriptor's author or else the owner,
\* and the descriptor's version or else '1.0.0'; empty_is_none tells whether
\* a version "" counts as none.
SynthesizedAsStated(empty_is_none) ==
    /\ Len(SynthesizedEntries) = Len(WrittenAdditions)
    /\ \A i \in 1..Len(WrittenAdditions) :
          LET a == WrittenAdditions[i]
              pj == tree[a][1].plugin_json
              e == SynthesizedEntries[i]
          IN  /\ e.source = <<".", "/", "p", "l", "u", "g", "i", "n", "s", "/">> \o a
              /\ e.category = <<"d", "e", "v", "e", "l", "o", "p", "m", "e", "n", "t">>
              /\ e.author = IF pj.author = <<>> THEN file.owner ELSE pj.author[1]
              /\ e.version =
                    IF \/ pj.version = <<>>
                       \/ empty_is_none /\ pj.version = << <<>> >>
                    THEN <<"1", ".", "0", ".", "0">> ELSE pj.version[1]

\* C12 as stated: every entry sync --write synthesizes has the descriptor's
\* version, or '1.0.0' when the descriptor has none, the descriptor's author
\* or else the owner, the category 'development' and the source
\* './plugins/<name>'.
C12_SynthesizedDefaults_AsStated ==
    [][ (cmd'.name = "sync" /\ run_wrote') =>
           SynthesizedAsStated(FALSE) ]_vars

\* C12, amended: as above, but the version is '1.0.0' also when the
\* descriptor's version is the empty string.
C12_SynthesizedDefaults ==
    [][ (cmd'.name = "sync" /\ run_wrote') =>
           SynthesizedAsStated(TRUE) ]_vars

\* sync --write added a plugin whose descriptor has the version "" and an
\* author: the entry has '1.0.0' and that author.
C12_Witness ==
    /\ cmd.name = "sync"
    /\ run_wrote
    /\ \E a \in Range(run_additions) :
          /\ tree[a][1].plugin_json.version = << <<>> >>
          /\ tree[a][1].plugin_json.author # <<>>
          /\ \E i \in 1..Len(file.plugins) :
                /\ file.plugins[i].source =
                      <<".", "/", "p", "l", "u", "g", "i", "n", "s", "/">> \o a
                /\ file.plugins[i].version = <<"1", ".", "0", ".", "0">>
                /\ file.plugins[i].author = tree[a][1].plugin_json.author[1]

-----------------------------------------------------------------------------
(* C13 *)

\* The violations of _validate_mcp_json that name the key
EntryViolations(key) ==
    SelectSeq(dirResult.errors,
       LAMBDA m : m.kind = "mcp_entry_not_object" /\ m.b = key)

\* C13: for an .mcp.json that is an object, _validate_mcp_json returns one
\* violation naming the key for every member whose value is no object, none
\* for the other members and nothing else; for content that is no JSON or
\* whose top level is no object it returns exactly one violation, which names
\* no entry.
C13_McpEntriesReportedByKey ==
    (dirDone /\ plugin_dir.mcp # <<>>) =>
        LET data == plugin_dir.mcp[1]
            errors == dirResult.errors
        IN  /\ data.kind = "invalid" =>
                  Len(errors) = 1 /\ errors[1].kind = "mcp_invalid_json"
            /\ data.kind = "list" =>
                  Len(errors) = 1 /\ errors[1].kind = "mcp_top_level_not_object"
            /\ data.kind = "dict" =>
                  /\ \A i \in 1..Len(data.items) :
                        Len(EntryViolations(data.items[i].key)) =
                           IF data.items[i].isdict THEN 0 ELSE 1
                  /\ Len(errors) =
                        Cardinality({ i \in 1..Len(data.items) :
                                         ~data.items[i].isdict })
                  /\ \A j \in 1..Len(errors) :
                        errors[j].kind = "mcp_entry_not_object"

\* {"srv": "not-an-object"} gave exactly one violation, naming srv.
C13_Witness ==
    /\ dirDone
    /\ plugin_dir.mcp = << JsonObject(<< Member(K_srv, FALSE, {}) >>) >>
    /\ dirResult.errors =
          << Msg("mcp_entry_not_object", plugin_dir.dirname, K_srv, "", 0) >>

-----------------------------------------------------------------------------
(* C14 *)

\* The findings of the stdout lines from the i-th on that begin with the
\* marker, leading blanks aside: what follows the marker
RECURSIVE MarkedLinesFrom(_, _)
MarkedLinesFrom(lines, i) ==
    IF i > Len(lines) THEN <<>>
    ELSE LET l == Strip(lines[i])
         IN  (IF Len(l) >= 1 /\ l[1] = ">"
              THEN <<Strip(SubSeq(l, 2, Len(l)))>> ELSE <<>>)
             \o MarkedLinesFrom(lines, i + 1)

RECURSIVE Times(_, _)
Times(q, k) == IF k = 0 THEN <<>> ELSE q \o Times(q, k - 1)

\* The texts of the external validator's messages in a list of lint
ValidatorTexts(messages) ==
    LET own == SelectSeq(messages, LAMBDA m : m.kind = "claude_validate")
    IN  [i \in 1..Len(own) |-> own[i].a]

\* C14: in a lint run that gets past the external validator, what the
\* validator adds for each path it checks (the repository and every
\* discovered plugin) is the stdout lines that begin with the marker: all of
\* them errors and none warnings when it exits non-zero, all warnings and
\* none errors when it exits zero; with no binary it adds nothing and the
\* exit status is that of the other checks.
C14_ValidatorFindings ==
    (cmd.name = "lint" /\ run_raised \in {"", "SystemExit"}) =>
        LET v == run_validator
            findings == Times(MarkedLinesFrom(v.stdout, 1),
                              1 + Cardinality(DiscoveredNames))
        IN  /\ ~v.present =>
                  /\ ValidatorTexts(run_errors) = <<>>
                  /\ ValidatorTexts(run_warnings) = <<>>
                  /\ run_exit_code # 0 <=> run_errors # <<>>
            /\ (v.present /\ v.returncode # 0) =>
                  /\ ValidatorTexts(run_errors) = findings
                  /\ ValidatorTexts(run_warnings) = <<>>
            /\ (v.present /\ v.returncode = 0) =>
                  /\ ValidatorTexts(run_errors) = <<>>
                  /\ ValidatorTexts(run_warnings) = findings

-----------------------------------------------------------------------------
(* C15 *)

\* The duplicate-name errors of the last lint run that name n
DuplicateErrorsNaming(n) ==
    SelectSeq(run_errors,
       LAMBDA m : m.kind = "duplicate_plugin_name" /\ m.a = n)

-----------------------------------------------------------------------------
(* C16 *)

\* C16: the sync run that comes right after a sync --write run that wrote
\* the manifest, the plugins/ tree being the same, computes no additions and
\* no removals and reports 'in sync'.
C16_SyncWriteConverges ==
    [][ (cmd.name = "sync" /\ run_wrote /\ cmd'.name = "sync") =>
           /\ run_additions' = <<>>
           /\ run_removals' = <<>>
           /\ run_report' = "in_sync"
      ]_vars

-----------------------------------------------------------------------------
(* C17 *)

PairwiseDistinctNames(plugins) ==
    \A i, j \in 1..Len(plugins) : plugins[i].name = plugins[j].name => i = j

\* C17: a sync --write run that rewrites a manifest whose plugin names are
\* pairwise distinct writes a manifest whose plugin names are pairwise
\* distinct; so they stay distinct over any number of such runs.
C17_NamesStayDistinct ==
    [][ (cmd'.name = "sync" /\ run_wrote' /\ PairwiseDistinctNames(file.plugins)) =>
           PairwiseDistinctNames(file'.plugins)
      ]_vars

-----------------------------------------------------------------------------
(* C19 *)

\* C19: in the check-outdated run that comes right after a sync --write run
\* that wrote the manifest, and that goes through all entries, every plugin
\* the sync run added (its descriptor carrying the directory's name) has a
\* row, and the row says OK.
C19_NoVersionDrift ==
    [][ (cmd.name = "sync" /\ run_wrote
            /\ cmd'.name = "check-outdated" /\ run_raised' = "") =>
           \A a \in Range(run_additions) :
              tree[a][1].plugin_json.name = a =>
                 /\ \E i \in 1..Len(run_rows') : run_rows'[i].name = a
                 /\ \A i \in 1..Len(run_rows') :
                       run_rows'[i].name = a => run_rows'[i].status = "OK"
      ]_vars

-----------------------------------------------------------------------------
(* C18 *)

\* C18: an evaluation of validate_marketplace_name that follows another of
\* the same name returns the same list, the word named in the error
\* included.
C18_NamePolicyDeterministic ==
    [][ (nameDone /\ nameDone' /\ name' = name) => nameErrors' = nameErrors ]_vars

-----------------------------------------------------------------------------
(* C20 *)

LifecycleOrder ==
    << "validate", "marketplace_add", "install", "disable_enable",
       "uninstall", "marketplace_remove" >>

LifecycleRank(group) ==
    CHOOSE k \in 1..Len(LifecycleOrder) : LifecycleOrder[k] = group

\* No test twice, and the tests in the order of the lifecycle
InOrderNoRepeat(q) ==
    \A i, j \in 1..Len(q) :
       i < j => /\ q[i] # q[j]
                /\ LifecycleRank(q[i].group) <= LifecycleRank(q[j].group)

EveryTestOnceInOrder(q) ==
    /\ InOrderNoRepeat(q)
    /\ { q[i] : i \in 1..Len(q) } = { SuiteTests[i] : i \in 1..Len(SuiteTests) }

\* A test that ends by an assertion failure or a timeout is counted as not
\* passed and the suite goes on; outside a suite there is no sandbox.
FailuresAreRecorded ==
    /\ (e2e_ran' # e2e_ran /\ e2e_last' \in {"TestFailureError", "TimeoutExpired"}) =>
          /\ e2e_pc' = "suite"
          /\ e2e_passed' = e2e_passed
          /\ e2e_exit_code' = e2e_exit_code
    /\ (e2e_ran' # e2e_ran /\ e2e_last' = "return") =>
          /\ e2e_pc' = "suite"
          /\ e2e_passed' = e2e_passed + 1
    /\ e2e_pc' # "suite" => ~e2e_sandbox'

====
